---------------------------- MODULE Spec2Model ----------------------------
(***************************************************************************)
(* Verification model of the $ME staker dashboard.                         *)
(*                                                                         *)
(* The repository holds three revisions of the App component:              *)
(*   variant 1  src/unnamed/part_000 lines 72-364 (field validation, the   *)
(*              catch block stores the error, delta-based aggregation      *)
(*              that throws on an empty record list)                       *)
(*   variant 2  src/src/App.tsx lines 332-579  (as variant 1, with         *)
(*              cumulative daily totals that never throw on an array)      *)
(*   variant 3  src/src/App.tsx lines 72-258   (no field validation, the   *)
(*              catch block does not store the error, monthly chart)       *)
(* A behaviour fixes one variant in Init and runs it.                      *)
(*                                                                         *)
(* React state updates made in one synchronous stretch of fetchData are    *)
(* batched (createRoot, part_002 line 10) and followed by one render, so   *)
(* each stretch together with its render is one action.                    *)
(*                                                                         *)
(* Numbers: in the fetch cycle staker amounts are integers in hundredths   *)
(* of a token and the snapshot totals are decimal records [whole, cents];  *)
(* calcVotingPower is computed on exact rationals (its rounding is not     *)
(* modelled); the time-series aggregator adds and subtracts IEEE doubles   *)
(* with their rounding.                                                    *)
(***************************************************************************)
EXTENDS Integers, Sequences, FiniteSets, TLC

VARIABLES
    variant,        \* which revision of App is running (1, 2 or 3)
    data,           \* useState<StakerSnapshot | null>
    error,          \* useState<string | null>
    loading,        \* useState(true)
    usingMockData,  \* useState(false)
    interval,       \* the setInterval timer: "none", "armed" or "cleared"
    hasError,       \* ErrorBoundary.state.hasError
    inFlight,       \* number of fetchData calls suspended at an await
    lastOutcome,    \* history: branch taken by the last fetchData to finish
    lastResponse,   \* history: what the endpoint answered to that fetchData
    args,           \* pure-function harness: the arguments of the call
    ret             \* pure-function harness: <<>> before the call, <<value>> after

vars == <<variant, data, error, loading, usingMockData, interval, hasError,
          inFlight, lastOutcome, lastResponse, args, ret>>

appVars == <<variant, data, error, loading, usingMockData, interval, hasError,
             inFlight, lastOutcome, lastResponse>>

(***************************************************************************)
(* Bounds                                                                  *)
(***************************************************************************)
MaxInFlight == 2

(***************************************************************************)
(* Values                                                                  *)
(***************************************************************************)
Variants == {1, 2, 3}

\* the null of the data slot and the null of the error slot
NullData == [null |-> TRUE]
NullError == "null"

Dec(w, c) == [whole |-> w, cents |-> c]

DecZero == Dec(0, 0)

AllKeys == {"ts", "totalUIStaked", "totalLockups", "totalUIStakingPower", "stakers"}

\* the bundled sample snapshot
mockData ==
    [keys |-> AllKeys,
     ts |-> "2024-03-20T15:30:00.000Z",
     totalUIStaked |-> Dec(13791417, 12),
     totalLockups |-> 40812,
     totalUIStakingPower |-> Dec(52270945, 73),
     stakers |->
       << [wallet |-> "AaBbCcDdEeFfGgHhIiJjKkLlMmNnOoPpQqRrSsTtUu",
           uiStakingPower |-> 40000, uiAmount |-> 10000,
           startTs |-> 1710945600, endTs |-> 1742481600, duration |-> 31536000],
          [wallet |-> "VvWwXxYyZz11223344556677889900AaBbCcDdEe",
           uiStakingPower |-> 2000001, uiAmount |-> 1000000,
           startTs |-> 1710945600, endTs |-> 1726617600, duration |-> 15672000] >>]

\* A snapshot of the declared shape with one lockup; the payloads the remote
\* endpoint may answer with are this one with fields dropped or zeroed.
LiveFull ==
    [keys |-> AllKeys,
     ts |-> "2024-04-01T00:00:00.000Z",
     totalUIStaked |-> Dec(100, 0),
     totalLockups |-> 1,
     totalUIStakingPower |-> Dec(250, 0),
     stakers |->
       << [wallet |-> "w1", uiStakingPower |-> 25000, uiAmount |-> 10000,
           startTs |-> 1711929600, endTs |-> 1727740800, duration |-> 15811200] >>]

Without(p, k) == [p EXCEPT !.keys = p.keys \ {k}]

\* a second well-formed snapshot, with two lockups
LiveTwo ==
    [keys |-> AllKeys,
     ts |-> "2024-04-02T00:00:00.000Z",
     totalUIStaked |-> Dec(300, 0),
     totalLockups |-> 2,
     totalUIStakingPower |-> Dec(650, 0),
     stakers |->
       << [wallet |-> "w1", uiStakingPower |-> 25000, uiAmount |-> 10000,
           startTs |-> 1711929600, endTs |-> 1727740800, duration |-> 15811200],
          [wallet |-> "w2", uiStakingPower |-> 40000, uiAmount |-> 20000,
           startTs |-> 1712016000, endTs |-> 1743552000, duration |-> 31536000] >>]

LivePayloads ==
    { LiveFull, LiveTwo,
      [LiveFull EXCEPT !.stakers = <<>>, !.totalLockups = 0],
      [LiveFull EXCEPT !.totalUIStakingPower = DecZero],
      [LiveFull EXCEPT !.totalUIStaked = DecZero],
      Without(LiveFull, "stakers"),
      Without(LiveFull, "totalUIStakingPower"),
      Without(LiveFull, "totalUIStaked") }

\* the messages of the errors that reach fetchData's catch block
MsgNetwork == "Failed to fetch"
MsgHttp == "HTTP error! status: 500"
MsgJson == "Unexpected token < in JSON"
MsgStructure(v) ==
    IF v = 3 THEN "Invalid data structure"
    ELSE "Invalid data structure received from API"
MsgMissing == "Missing required fields in API response"

(***************************************************************************)
(* fetchData                                                               *)
(***************************************************************************)
\* JavaScript truthiness of the property k of the payload p
Truthy(p, k) ==
    /\ k \in p.keys
    /\ CASE k = "stakers" -> TRUE                  \* an array, even empty
         [] k = "totalUIStakingPower" -> p.totalUIStakingPower # DecZero
         [] k = "totalUIStaked" -> p.totalUIStaked # DecZero
         [] OTHER -> TRUE

\* "Validate required fields": variants 1 and 2 only
PassesValidation(v, p) ==
    \/ v = 3
    \/ /\ Truthy(p, "stakers")
       /\ Truthy(p, "totalUIStakingPower")
       /\ Truthy(p, "totalUIStaked")

\* the dashboard part of App's render body throws
DashboardThrows(v, d) ==
    CASE v = 1 -> \/ "stakers" \notin d.keys
                  \/ Len(d.stakers) = 0       \* "No staker data available ..."
      [] v = 2 -> "stakers" \notin d.keys
      [] v = 3 -> "stakers" \notin d.keys     \* [...undefined] in getPercentileThresholds

\* App's render: the two guards, then the dashboard
RenderThrows(v, l, e, d) ==
    /\ ~l
    /\ ~(e # NullError \/ d = NullData)
    /\ DashboardThrows(v, d)

\* What the page shows
View ==
    IF hasError THEN "boundary"
    ELSE IF loading THEN "loading"
    ELSE IF error # NullError \/ data = NullData THEN "errorPanel"
    ELSE "dashboard"

\* the InfoMessage notice is part of the dashboard
NoticeShown == View = "dashboard" /\ usingMockData

\* fetchData's head, had it also emptied the snapshot slot
FetchStartClearsData ==
    /\ loading' = TRUE
    /\ error' = NullError
    /\ usingMockData' = FALSE
    /\ data' = NullData
    /\ inFlight' = inFlight + 1
    /\ UNCHANGED <<variant, hasError, lastOutcome, lastResponse, args, ret>>

\* the synchronous head of fetchData, up to the first await
FetchStart ==
    /\ loading' = TRUE
    /\ error' = NullError
    /\ usingMockData' = FALSE
    /\ inFlight' = inFlight + 1
    /\ UNCHANGED <<variant, data, hasError, lastOutcome, lastResponse, args, ret>>

\* useEffect body: fetchData() and setInterval
Mount ==
    /\ interval = "none"
    /\ interval' = "armed"
    /\ FetchStart

\* a timer re-armed by the completion of the previous fetch
TickChained ==
    /\ interval = "armed"
    /\ inFlight = 0
    /\ UNCHANGED interval
    /\ FetchStart

\* the interval fires
Tick ==
    /\ interval = "armed"
    /\ inFlight < MaxInFlight
    /\ UNCHANGED interval
    /\ FetchStart

\* The render that follows a batch of state updates; a throw is caught by
\* the ErrorBoundary, whose fallback unmounts App and so runs the effect's
\* cleanup (clearInterval).
Rerender(l, e, d) ==
    IF RenderThrows(variant, l, e, d)
    THEN hasError' = TRUE /\ interval' = "cleared"
    ELSE UNCHANGED <<hasError, interval>>

\* fetchData resumes on an unmounted App: its state updates are dropped
Dropped ==
    UNCHANGED <<data, error, loading, usingMockData, hasError, interval>>

\* what the endpoint answered
Failure(kind) == [kind |-> kind]
Payload(p) == [kind |-> "payload", body |-> p]
NoResponse == [kind |-> "none"]

\* try block ran to setData(stakerData), then finally
FetchSucceed(p) ==
    /\ inFlight > 0
    /\ PassesValidation(variant, p)
    /\ inFlight' = inFlight - 1
    /\ lastOutcome' = "live"
    /\ lastResponse' = Payload(p)
    /\ IF interval = "armed"
       THEN /\ data' = p
            /\ loading' = FALSE
            /\ UNCHANGED <<error, usingMockData>>
            /\ Rerender(FALSE, error, p)
       ELSE Dropped
    /\ UNCHANGED <<variant, args, ret>>

\* a catch block without the fallback setData(mockData)
FetchFailKeepsData(msg, resp) ==
    /\ inFlight > 0
    /\ inFlight' = inFlight - 1
    /\ lastOutcome' = "fallback"
    /\ lastResponse' = resp
    /\ IF interval = "armed"
       THEN /\ error' = IF variant = 3 THEN error ELSE msg
            /\ usingMockData' = TRUE
            /\ loading' = FALSE
            /\ UNCHANGED data
            /\ UNCHANGED <<hasError, interval>>
       ELSE Dropped
    /\ UNCHANGED <<variant, args, ret>>

\* catch block, then finally
FetchFail(msg, resp) ==
    /\ inFlight > 0
    /\ inFlight' = inFlight - 1
    /\ lastOutcome' = "fallback"
    /\ lastResponse' = resp
    /\ IF interval = "armed"
       THEN /\ error' = IF variant = 3 THEN error ELSE msg
            /\ data' = mockData
            /\ usingMockData' = TRUE
            /\ loading' = FALSE
            /\ Rerender(FALSE, error', mockData)
       ELSE Dropped
    /\ UNCHANGED <<variant, args, ret>>

\* the request is rejected (network failure)
RespondReject == FetchFail(MsgNetwork, Failure("rejected"))

\* !response.ok
RespondHttpError == FetchFail(MsgHttp, Failure("status500"))

\* response.json() rejects
RespondBadJson == FetchFail(MsgJson, Failure("badJson"))

\* result?.result?.data?.json is missing
RespondNoPayload == FetchFail(MsgStructure(variant), Failure("noPayload"))

\* the envelope carries the payload p
RespondPayload ==
    \E p \in LivePayloads :
        \/ FetchSucceed(p)
        \/ ~PassesValidation(variant, p) /\ FetchFail(MsgMissing, Payload(p))

NoCall == <<>>

\* App's state after construction: the useState initial values, before the
\* effect has run
Constructed ==
    /\ data = NullData
    /\ error = NullError
    /\ loading = TRUE
    /\ usingMockData = FALSE
    /\ interval = "none"
    /\ hasError = FALSE
    /\ inFlight = 0
    /\ lastOutcome = "none"
    /\ lastResponse = NoResponse

Init ==
    /\ variant \in Variants
    /\ Constructed
    /\ args = NoCall
    /\ ret = NoCall

Next ==
    \/ Mount
    \/ Tick
    \/ RespondReject
    \/ RespondHttpError
    \/ RespondBadJson
    \/ RespondNoPayload
    \/ RespondPayload

Spec == Init /\ [][Next]_vars

(***************************************************************************)
(* Metrics engine (utils): calcVotingPower                                 *)
(***************************************************************************)
MaxTime == 4
MaxDur == 3

RECURSIVE Gcd(_, _)
Gcd(a, b) == IF b = 0 THEN a ELSE Gcd(b, a % b)

Abs(x) == IF x < 0 THEN -x ELSE x

\* a JavaScript number, held as a fraction in lowest terms
Rat(n, d) ==
    LET g == Gcd(Abs(n), Abs(d))
        sgn == IF d < 0 THEN -1 ELSE 1
    IN [num |-> sgn * (n \div g), den |-> sgn * (d \div g)]

Num(n) == Rat(n, 1)
RatAdd(x, y) == Rat(x.num * y.den + y.num * x.den, x.den * y.den)
RatSub(x, y) == Rat(x.num * y.den - y.num * x.den, x.den * y.den)
RatMul(x, y) == Rat(x.num * y.num, x.den * y.den)
RatDiv(x, y) == Rat(x.num * y.den, x.den * y.num)

\* calcVotingPower without the degenerate-window check
calcVotingPowerNoWindowCheck(lockupAmt, lockupStartTs, lockupEndTs, lockupMinDuration, lockupMaxSaturation, lockupTargetVotingPct, now) ==
    IF now > lockupEndTs THEN Num(0)
    ELSE
      LET duration == lockupEndTs - lockupStartTs
          maxVotingPower == RatDiv(Num(lockupAmt * lockupTargetVotingPct), Num(100))
          lockupDurationRange == lockupMaxSaturation - lockupMinDuration
      IN IF duration <= lockupMinDuration THEN Num(lockupAmt)
         ELSE IF duration >= lockupMaxSaturation THEN maxVotingPower
         ELSE IF lockupDurationRange <= 0 THEN Num(0)
         ELSE RatAdd(Num(lockupAmt),
                     RatDiv(RatMul(RatSub(maxVotingPower, Num(lockupAmt)),
                                   Num(duration - lockupMinDuration)),
                            Num(lockupMaxSaturation - lockupMinDuration)))

\* calcVotingPower interpolating from zero instead of from the amount
calcVotingPowerFromZero(lockupAmt, lockupStartTs, lockupEndTs, lockupMinDuration, lockupMaxSaturation, lockupTargetVotingPct, now) ==
    IF now > lockupEndTs THEN Num(0)
    ELSE IF lockupEndTs <= lockupStartTs THEN Num(0)
    ELSE
      LET duration == lockupEndTs - lockupStartTs
          maxVotingPower == RatDiv(Num(lockupAmt * lockupTargetVotingPct), Num(100))
          lockupDurationRange == lockupMaxSaturation - lockupMinDuration
      IN IF duration <= lockupMinDuration THEN Num(lockupAmt)
         ELSE IF duration >= lockupMaxSaturation THEN maxVotingPower
         ELSE IF lockupDurationRange <= 0 THEN Num(0)
         ELSE RatDiv(RatMul(RatSub(maxVotingPower, Num(lockupAmt)),
                            Num(duration - lockupMinDuration)),
                     Num(lockupMaxSaturation - lockupMinDuration))

calcVotingPower(lockupAmt, lockupStartTs, lockupEndTs, lockupMinDuration, lockupMaxSaturation, lockupTargetVotingPct, now) ==
    IF now > lockupEndTs THEN Num(0)
    ELSE IF lockupEndTs <= lockupStartTs THEN Num(0)
    ELSE
      LET duration == lockupEndTs - lockupStartTs
          maxVotingPower == RatDiv(Num(lockupAmt * lockupTargetVotingPct), Num(100))
          lockupDurationRange == lockupMaxSaturation - lockupMinDuration
      IN IF duration <= lockupMinDuration THEN Num(lockupAmt)
         ELSE IF duration >= lockupMaxSaturation THEN maxVotingPower
         ELSE IF lockupDurationRange <= 0 THEN Num(0)
         ELSE RatAdd(Num(lockupAmt),
                     RatDiv(RatMul(RatSub(maxVotingPower, Num(lockupAmt)),
                                   Num(duration - lockupMinDuration)),
                            Num(lockupMaxSaturation - lockupMinDuration)))

\* the arguments the function is exercised on; times and durations are in
\* one common unit
Amounts == {0, 100, 250}
Pcts == {50, 100, 400}

VotingPowerArgs ==
    [lockupAmt : Amounts,
     lockupStartTs : 0 .. MaxTime,
     lockupEndTs : 0 .. MaxTime,
     lockupMinDuration : 0 .. MaxDur,
     lockupMaxSaturation : 0 .. MaxDur,
     lockupTargetVotingPct : Pcts,
     now : 0 .. MaxTime + 1]

\* a caller evaluates calcVotingPower on args
CallCalcVotingPower ==
    /\ ret = NoCall
    /\ ret' = << calcVotingPower(args.lockupAmt, args.lockupStartTs, args.lockupEndTs,
                                 args.lockupMinDuration, args.lockupMaxSaturation,
                                 args.lockupTargetVotingPct, args.now) >>
    /\ UNCHANGED <<appVars, args>>

InitVotingPower ==
    /\ variant = 1
    /\ Constructed
    /\ args \in VotingPowerArgs
    /\ ret = NoCall

NextVotingPower == CallCalcVotingPower

SpecVotingPower == InitVotingPower /\ [][NextVotingPower]_vars

Called == ret # NoCall

\* the lockup of args is neither expired nor degenerate
LiveLockup == args.now <= args.lockupEndTs /\ args.lockupEndTs > args.lockupStartTs

ArgDuration == args.lockupEndTs - args.lockupStartTs

(***************************************************************************)
(* C7  For a lockup that is neither expired nor degenerate, the result is  *)
(* 0 whenever maxSaturationDuration <= minDuration.                        *)
(***************************************************************************)
C7_MisconfiguredRangeIsZero ==
    (Called /\ LiveLockup /\ args.lockupMaxSaturation <= args.lockupMinDuration)
        => ret[1] = Num(0)

(***************************************************************************)
(* C8  The result is 0 whenever now > endTs or endTs <= startTs, whatever  *)
(* the other arguments are.                                                *)
(***************************************************************************)
C8_ExpiredOrDegenerateIsZero ==
    (Called /\ (args.now > args.lockupEndTs \/ args.lockupEndTs <= args.lockupStartTs))
        => ret[1] = Num(0)

\* now = endTs + 1 on a lockup that would otherwise have earned its amount
C8_Witness ==
    /\ Called
    /\ args.now = args.lockupEndTs + 1
    /\ args.lockupEndTs > args.lockupStartTs
    /\ args.lockupAmt > 0
    /\ ArgDuration <= args.lockupMinDuration
    /\ ret[1] = Num(0)

(***************************************************************************)
(* C9  For a live lockup and minDuration < maxSaturationDuration the       *)
(* result is amount at duration = minDuration, amount*pct/100 at           *)
(* duration = maxSaturationDuration, and the linear interpolation          *)
(* amount + (maxPower - amount)*(duration - min)/(max - min) in between.   *)
(* The equalities are stated cross-multiplied by 100*(max - min).          *)
(***************************************************************************)
C9_LinearCurve ==
    (Called /\ LiveLockup /\ args.lockupMinDuration < args.lockupMaxSaturation)
        => LET a == args.lockupAmt
               pct == args.lockupTargetVotingPct
               lo == args.lockupMinDuration
               hi == args.lockupMaxSaturation
               d == ArgDuration
               r == ret[1]
           IN /\ d = lo => r.num = a * r.den
              /\ d = hi => 100 * r.num = a * pct * r.den
              /\ (lo < d /\ d < hi) =>
                    100 * (hi - lo) * r.num
                      = (100 * a * (hi - lo) + (a * pct - 100 * a) * (d - lo)) * r.den

\* amount 100, range [0, 2], 400 percent, duration 1 (half of the range,
\* the spec's one-year range and six-month lockup in half-year units): 250
C9_Witness ==
    /\ Called
    /\ LiveLockup
    /\ args.lockupAmt = 100
    /\ args.lockupMinDuration = 0
    /\ args.lockupMaxSaturation = 2
    /\ args.lockupTargetVotingPct = 400
    /\ ArgDuration = 1
    /\ ret[1] = Num(250)

(***************************************************************************)
(* Metrics engine (utils): getPercentileThresholds                         *)
(***************************************************************************)
MaxShort == 4

\* Array.prototype.sort with the comparator (a, b) => b.uiStakingPower -
\* a.uiStakingPower: descending, equal powers keep their order
SortDesc(s) ==
    LET n == Len(s)
        \* the position of s[i] in the result: after every stronger record
        \* and after the equally strong records that precede it in s
        position == [i \in 1 .. n |->
            Cardinality({j \in 1 .. n :
                \/ s[j].uiStakingPower > s[i].uiStakingPower
                \/ s[j].uiStakingPower = s[i].uiStakingPower /\ j <= i})]
    IN [k \in 1 .. n |-> s[CHOOSE i \in 1 .. n : position[i] = k]]

\* [...stakers].sort(...): the sorted copy, and the caller's array after it
SortedCopy(stakers) ==
    [sortedPowers |-> SortDesc(stakers), stakers |-> stakers]

\* Math.floor(length * 0.01) and Math.floor(length * 0.1)
FloorPercent(length, percent) == (length * percent) \div 100

\* sortedPowers[index]?.uiStakingPower || 0
PowerAtOrZero(sortedPowers, index) ==
    IF index + 1 <= Len(sortedPowers) /\ sortedPowers[index + 1].uiStakingPower # 0
    THEN sortedPowers[index + 1].uiStakingPower
    ELSE 0

\* getPercentileThresholds rounding the 10% index up
getPercentileThresholdsCeil(stakers) ==
    LET sortedPowers == SortedCopy(stakers).sortedPowers
        top1Index == FloorPercent(Len(stakers), 1)
        top10Index == FloorPercent(Len(stakers) + 9, 10)
    IN [top1 |-> PowerAtOrZero(sortedPowers, top1Index),
        top10 |-> PowerAtOrZero(sortedPowers, top10Index)]

getPercentileThresholds(stakers) ==
    LET sortedPowers == SortedCopy(stakers).sortedPowers
        top1Index == FloorPercent(Len(stakers), 1)
        top10Index == FloorPercent(Len(stakers), 10)
    IN [top1 |-> PowerAtOrZero(sortedPowers, top1Index),
        top10 |-> PowerAtOrZero(sortedPowers, top10Index)]

\* The record lists the function is exercised on: every length up to
\* MaxShort, and lengths around the points where the two indexes step;
\* the powers follow (a*i + b) mod m, which yields many ties and zeros for
\* the small modulus and pairwise different powers for the large one.
LongLengths == {9, 10, 11, 20, 100, 101}
Lengths == (0 .. MaxShort) \cup LongLengths
PowerPatterns == [a : {1, 3, 6}, b : 0 .. 2, m : {4, 103}]

StakerList(n, pat) ==
    [i \in 1 .. n |->
        [wallet |-> ToString(i),
         uiStakingPower |-> ((pat.a * i + pat.b) % pat.m) * 100,
         uiAmount |-> 100,
         startTs |-> 0, endTs |-> 1, duration |-> 1]]

\* a caller evaluates getPercentileThresholds on its array args.stakers;
\* args.given remembers the array as it was handed over
CallGetPercentileThresholds ==
    /\ ret = NoCall
    /\ ret' = << getPercentileThresholds(args.stakers) >>
    /\ args' = [args EXCEPT !.stakers = SortedCopy(args.stakers).stakers]
    /\ UNCHANGED appVars

InitThresholds ==
    /\ variant = 1
    /\ Constructed
    /\ \E n \in Lengths, pat \in PowerPatterns :
          args = [given |-> StakerList(n, pat), stakers |-> StakerList(n, pat)]
    /\ ret = NoCall

NextThresholds == CallGetPercentileThresholds

SpecThresholds == InitThresholds /\ [][NextThresholds]_vars

\* v is the power found at 0-based position k when s is ordered by
\* descending power: at most k records are stronger and more than k are
\* at least as strong
IsRanked(s, v, k) ==
    /\ Cardinality({i \in 1 .. Len(s) : s[i].uiStakingPower > v}) <= k
    /\ Cardinality({i \in 1 .. Len(s) : s[i].uiStakingPower >= v}) > k

(***************************************************************************)
(* C10  For a list of n records, top1 is the power at position n div 100   *)
(* and top10 the power at position n div 10 of the records in descending   *)
(* order of power; both are 0 for the empty list; the caller's list is     *)
(* left as it was.                                                         *)
(***************************************************************************)
C10_Thresholds ==
    Called =>
        LET s == args.given
            n == Len(s)
        IN /\ n = 0 => (ret[1].top1 = 0 /\ ret[1].top10 = 0)
           /\ n > 0 => /\ IsRanked(s, ret[1].top1, n \div 100)
                       /\ IsRanked(s, ret[1].top10, n \div 10)
           /\ args.stakers = s

\* a list long enough for both indexes to be past 0, with the two
\* thresholds different and the list not already in descending order
C10_Witness ==
    /\ Called
    /\ Len(args.given) >= 100
    /\ ret[1].top1 # ret[1].top10
    /\ args.given # SortDesc(args.given)

(***************************************************************************)
(* Time-series aggregator: the render body of App in                       *)
(* src/unnamed/part_000, lines 141-200.                                    *)
(*                                                                         *)
(* Numbers are IEEE doubles.  The record [hi, lo] stands for the double    *)
(* hi * 2^53 + lo with lo a small integer; on these values the sum of two  *)
(* doubles is the exact sum rounded to the nearest representable value,    *)
(* ties to even, which is what += and -= do.                               *)
(*                                                                         *)
(* Instants are seconds since the epoch.  A day key 'yyyy-MM-dd' is held   *)
(* as its day number; for four-digit years the string order used by        *)
(* sort() and <= is the order of the day numbers.  date-fns format()       *)
(* works in the local time zone, given as its offset tz from UTC in        *)
(* seconds (no daylight-saving change within the range).                   *)
(***************************************************************************)
MaxDay == 3
MaxRecords == 2

SecondsPerDay == 86400

Dbl(hi, lo) == [hi |-> hi, lo |-> lo]

DZero == Dbl(0, 0)

IsNegative(x) == x.hi < 0 \/ (x.hi = 0 /\ x.lo < 0)

RECURSIVE Pow2Floor(_)
Pow2Floor(h) == IF h < 2 THEN 1 ELSE 2 * Pow2Floor(h \div 2)

\* spacing of the doubles around the magnitude h * 2^53 + l
Ulp(h, l) ==
    IF h = 0 THEN 1
    ELSE IF l >= 0 THEN 2 * Pow2Floor(h)
    ELSE IF h = Pow2Floor(h) THEN h
    ELSE 2 * Pow2Floor(h)

\* l rounded to a multiple of u, halfway cases to the even multiple
RoundTiesEven(l, u) ==
    LET q == l \div u
        r == l % u
    IN IF 2 * r < u THEN q * u
       ELSE IF 2 * r > u THEN (q + 1) * u
       ELSE IF q % 2 = 0 THEN q * u
       ELSE (q + 1) * u

\* the double nearest to the real number x.hi * 2^53 + x.lo
RoundDouble(x) ==
    LET neg == IsNegative(x)
        h == IF neg THEN -x.hi ELSE x.hi
        l == IF neg THEN -x.lo ELSE x.lo
        m == RoundTiesEven(l, Ulp(h, l))
    IN IF neg THEN Dbl(-h, -m) ELSE Dbl(h, m)

\* x + y and x - y on doubles
DAdd(x, y) == RoundDouble(Dbl(x.hi + y.hi, x.lo + y.lo))
DSub(x, y) == RoundDouble(Dbl(x.hi - y.hi, x.lo - y.lo))

\* format(new Date(ts * 1000), 'yyyy-MM-dd')
LocalDay(ts, tz) == (ts + tz) \div SecondsPerDay

\* new Date('yyyy-MM-dd'): a date-only string is midnight UTC of that day
ParseDay(day) == day * SecondsPerDay

\* acc[day] = acc[day] || { day, deltaStakingPower: 0, deltaMeStaked: 0 }
Touch(acc, day) ==
    [d \in (DOMAIN acc) \cup {day} |->
        IF d \in DOMAIN acc THEN acc[d]
        ELSE [day |-> day, deltaStakingPower |-> DZero, deltaMeStaked |-> DZero]]

\* the reducer, had it skipped the subtraction when the end day is the
\* start day
ReduceStakerDistinctEnd(acc, staker, tz) ==
    LET startDay == LocalDay(staker.startTs, tz)
        endDay == LocalDay(staker.endTs, tz)
        a1 == Touch(acc, startDay)
        a2 == [a1 EXCEPT ![startDay] =
                 [@ EXCEPT !.deltaStakingPower = DAdd(@, staker.uiStakingPower),
                           !.deltaMeStaked = DAdd(@, staker.uiAmount)]]
        a3 == Touch(a2, endDay)
    IN IF staker.endTs # 0 /\ endDay # startDay
       THEN [a3 EXCEPT ![endDay] =
               [@ EXCEPT !.deltaStakingPower = DSub(@, staker.uiStakingPower),
                         !.deltaMeStaked = DSub(@, staker.uiAmount)]]
       ELSE a2

\* the reducer, had it assigned (=) the amounts to the start day's delta
\* instead of adding them (+=)
ReduceStakerOverwrites(acc, staker, tz) ==
    LET startDay == LocalDay(staker.startTs, tz)
        endDay == LocalDay(staker.endTs, tz)
        a1 == Touch(acc, startDay)
        a2 == [a1 EXCEPT ![startDay] =
                 [@ EXCEPT !.deltaStakingPower = staker.uiStakingPower,
                           !.deltaMeStaked = staker.uiAmount]]
        a3 == Touch(a2, endDay)
    IN IF staker.endTs # 0
       THEN [a3 EXCEPT ![endDay] =
               [@ EXCEPT !.deltaStakingPower = DSub(@, staker.uiStakingPower),
                         !.deltaMeStaked = DSub(@, staker.uiAmount)]]
       ELSE a2

\* the reducer, had it taken the amounts off the end day's delta twice
ReduceStakerClosesTwice(acc, staker, tz) ==
    LET startDay == LocalDay(staker.startTs, tz)
        endDay == LocalDay(staker.endTs, tz)
        a1 == Touch(acc, startDay)
        a2 == [a1 EXCEPT ![startDay] =
                 [@ EXCEPT !.deltaStakingPower = DAdd(@, staker.uiStakingPower),
                           !.deltaMeStaked = DAdd(@, staker.uiAmount)]]
        a3 == Touch(a2, endDay)
    IN IF staker.endTs # 0
       THEN [a3 EXCEPT ![endDay] =
               [@ EXCEPT !.deltaStakingPower =
                             DSub(DSub(@, staker.uiStakingPower), staker.uiStakingPower),
                         !.deltaMeStaked =
                             DSub(DSub(@, staker.uiAmount), staker.uiAmount)]]
       ELSE a2

\* one step of data.stakers.reduce((acc, staker) => ..., {})
ReduceStaker(acc, staker, tz) ==
    LET startDay == LocalDay(staker.startTs, tz)
        endDay == LocalDay(staker.endTs, tz)       \* null when endTs is falsy
        a1 == Touch(acc, startDay)
        a2 == [a1 EXCEPT ![startDay] =
                 [@ EXCEPT !.deltaStakingPower = DAdd(@, staker.uiStakingPower),
                           !.deltaMeStaked = DAdd(@, staker.uiAmount)]]
        a3 == Touch(a2, endDay)
    IN IF staker.endTs # 0
       THEN [a3 EXCEPT ![endDay] =
               [@ EXCEPT !.deltaStakingPower = DSub(@, staker.uiStakingPower),
                         !.deltaMeStaked = DSub(@, staker.uiAmount)]]
       ELSE a2

RECURSIVE ReduceUpTo(_, _, _)
ReduceUpTo(stakers, n, tz) ==
    IF n = 0 THEN << >>
    ELSE ReduceStaker(ReduceUpTo(stakers, n - 1, tz), stakers[n], tz)

dailyAggregation(stakers, tz) == ReduceUpTo(stakers, Len(stakers), tz)

\* daysFromData.sort()[0]
Earliest(days) == CHOOSE d \in days : \A e \in days : d <= e

\* while (format(currentDate, 'yyyy-MM-dd') <= todayStr) { push; setDate(+1) }
RECURSIVE DayLoop(_, _, _, _)
DayLoop(currentDate, todayStr, tz, allDays) ==
    IF LocalDay(currentDate, tz) <= todayStr
    THEN DayLoop(currentDate + SecondsPerDay, todayStr, tz,
                 Append(allDays, LocalDay(currentDate, tz)))
    ELSE allDays

\* allDays.map(day => ({ day, ...(dailyAggregation[day] || zero delta) }))
dailyData(agg, allDays) ==
    [i \in 1 .. Len(allDays) |->
        IF allDays[i] \in DOMAIN agg
        THEN [day |-> allDays[i],
              deltaStakingPower |-> agg[allDays[i]].deltaStakingPower,
              deltaMeStaked |-> agg[allDays[i]].deltaMeStaked]
        ELSE [day |-> allDays[i],
              deltaStakingPower |-> DZero,
              deltaMeStaked |-> DZero]]

\* the value of cumulativeStakingPower / cumulativeMeStaked after n items
RECURSIVE RunningPower(_, _)
RunningPower(daily, n) ==
    IF n = 0 THEN DZero
    ELSE DAdd(RunningPower(daily, n - 1), daily[n].deltaStakingPower)

RECURSIVE RunningMeStaked(_, _)
RunningMeStaked(daily, n) ==
    IF n = 0 THEN DZero
    ELSE DAdd(RunningMeStaked(daily, n - 1), daily[n].deltaMeStaked)

cumulativeData(daily) ==
    [i \in 1 .. Len(daily) |->
        [day |-> daily[i].day,
         totalStakingPower |-> RunningPower(daily, i),
         totalMeStaked |-> RunningMeStaked(daily, i)]]

\* lines 141-200 for the snapshot's stakers, the clock reading now and the
\* zone offset tz: either the throw of line 172 or the series handed to
\* the charts
Aggregate(stakers, now, tz) ==
    LET agg == dailyAggregation(stakers, tz)
        todayStr == LocalDay(now, tz)
        daysFromData == DOMAIN agg
        earliestDayStr == Earliest(daysFromData)
        allDays == DayLoop(ParseDay(earliestDayStr), todayStr, tz, << >>)
        daily == dailyData(agg, allDays)
    IN IF daysFromData = {}
       THEN [kind |-> "throw",
             message |-> "No staker data available to determine date range."]
       ELSE [kind |-> "series",
             dailyAggregation |-> agg,
             earliestDayStr |-> earliestDayStr,
             todayStr |-> todayStr,
             allDays |-> allDays,
             dailyData |-> daily,
             cumulativeData |-> cumulativeData(daily)]

\* inputs: start instants early in each day and one late on the first day,
\* end instants at noon or absent (0), so that lockups may end before,
\* on or after their start day
HourEarly == 3600
HourNoon == 43200
HourLate == 72000

StartInstants ==
    {ParseDay(d) + HourEarly : d \in 1 .. MaxDay} \cup {ParseDay(1) + HourLate}

EndInstants == {0} \cup {ParseDay(d) + HourNoon : d \in 1 .. MaxDay}

\* 2^53 does not absorb 1: the smallest amounts whose sum is rounded
StakeKinds ==
    { [uiStakingPower |-> Dbl(0, 1), uiAmount |-> Dbl(0, 1)],
      [uiStakingPower |-> Dbl(0, 2), uiAmount |-> Dbl(0, 3)],
      [uiStakingPower |-> Dbl(1, 0), uiAmount |-> Dbl(0, 2)] }

StakerRecords ==
    { [startTs |-> st, endTs |-> en,
       uiStakingPower |-> k.uiStakingPower, uiAmount |-> k.uiAmount] :
        st \in StartInstants, en \in EndInstants, k \in StakeKinds }

StakerLists == UNION { [1 .. n -> StakerRecords] : n \in 0 .. MaxRecords }

Clocks == {ParseDay(2) + HourNoon, ParseDay(MaxDay + 1) + HourNoon}

ZoneOffsets == {-18000, 0, 32400}

CallAggregate ==
    /\ ret = NoCall
    /\ ret' = <<Aggregate(args.stakers, args.now, args.tz)>>
    /\ UNCHANGED <<args, appVars>>

InitAggregator ==
    /\ variant = 1
    /\ Constructed
    /\ args \in [stakers : StakerLists, now : Clocks, tz : ZoneOffsets]
    /\ ret = NoCall

NextAggregator == CallAggregate

SpecAggregator == InitAggregator /\ [][NextAggregator]_vars

(***************************************************************************)
(* C1  After a fetch that took the fallback path has completed and no      *)
(* other fetch is in flight, the page shows the dashboard of the bundled   *)
(* sample snapshot together with the sample-data notice, not an error      *)
(* panel.                                                                  *)
(***************************************************************************)
C1_FallbackShowsSample ==
    (lastOutcome = "fallback" /\ inFlight = 0)
        => (View = "dashboard" /\ data = mockData /\ NoticeShown)

(***************************************************************************)
(* C2  Once armed, the periodic timer stays armed in every reachable       *)
(* state, whatever the fetch outcomes and snapshot contents were.          *)
(***************************************************************************)
C2_TimerStaysArmed == interval # "cleared"

(***************************************************************************)
(* C3  (as claimed) A tick of the timer leaves the visible view as it      *)
(* was: the previously rendered dashboard stays visible while the          *)
(* request is outstanding.                                                 *)
(***************************************************************************)
C3_TickKeepsView == [][Tick => View' = View]_vars

(***************************************************************************)
(* C3  (amended) A tick of the timer leaves the current-snapshot slot      *)
(* unchanged and switches the visible view to the loading indicator,       *)
(* which stays until a fetch completes.                                    *)
(***************************************************************************)
C3_TickKeepsDataShowsLoading ==
    /\ [][Tick => (data' = data /\ View' = "loading")]_vars
    /\ [][(View = "loading" /\ View' # "loading") => inFlight' < inFlight]_vars

\* a tick has started a request while a snapshot was already installed
C3_Witness ==
    /\ interval = "armed"
    /\ data # NullData
    /\ loading
    /\ inFlight > 0

(***************************************************************************)
(* C4  Once a fetch has completed, the current-snapshot slot is never      *)
(* empty again, and it holds exactly one whole live payload or the         *)
(* bundled sample.                                                         *)
(***************************************************************************)
C4_SlotNeverEmpty ==
    lastOutcome # "none" => data \in (LivePayloads \cup {mockData})

\* a second fetch is outstanding after a fallback and after a live install
C4_Witness ==
    /\ lastOutcome # "none"
    /\ inFlight > 0
    /\ data # NullData

(***************************************************************************)
(* C5  A delivered payload is installed as live data exactly when the      *)
(* record list, the total staking power and the total staked are all       *)
(* present in it; otherwise the fetch ends as a failure does (sample       *)
(* snapshot installed, sample flag set).                                   *)
(***************************************************************************)
RequiredKeys == {"stakers", "totalUIStakingPower", "totalUIStaked"}

C5_InstalledIffComplete ==
    (lastResponse.kind = "payload" /\ interval = "armed" /\ ~loading)
        => IF RequiredKeys \subseteq lastResponse.body.keys
           THEN lastOutcome = "live" /\ data = lastResponse.body
           ELSE lastOutcome = "fallback" /\ data = mockData /\ usingMockData

(***************************************************************************)
(* C6  While the timer is armed a tick can start its request whether or    *)
(* not earlier requests have completed (up to the modelled number of       *)
(* outstanding requests), and a tick adds one outstanding request.         *)
(***************************************************************************)
C6_TickNotBlocked ==
    /\ []((interval = "armed" /\ inFlight < MaxInFlight) => ENABLED Tick)
    /\ [][(Mount \/ Tick) => inFlight' = inFlight + 1]_vars

\* a tick has fired while the request before it was still outstanding
C6_Witness == interval = "armed" /\ inFlight >= 2

(***************************************************************************)
(* C13  When the installed snapshot has an empty record list and the       *)
(* dashboard is due (not loading, no stored error), the page shows a       *)
(* dedicated no-data state: neither the error boundary's panel (the        *)
(* aggregator's exception left unhandled by App) nor a dashboard drawn     *)
(* from an empty series.                                                   *)
(***************************************************************************)
EmptySnapshotDue ==
    /\ data # NullData
    /\ "stakers" \in data.keys
    /\ data.stakers = <<>>
    /\ ~loading
    /\ error = NullError

C13_EmptyListExplicit ==
    EmptySnapshotDue => View \notin {"boundary", "dashboard"}

(***************************************************************************)
(* C17  Whenever the loading indicator is off, the sample-data flag is     *)
(* set exactly when the current snapshot is the bundled sample.            *)
(***************************************************************************)
C17_FlagMatchesSnapshot ==
    ~loading => (usingMockData <=> data = mockData)

(***************************************************************************)
(* C18  Whenever a fetch request is in flight, the loading flag is set.    *)
(***************************************************************************)
C18_LoadingWhileInFlight ==
    inFlight > 0 => loading

(***************************************************************************)
(* C19  When a fetch that started with nothing else in flight after a      *)
(* failed one completes with a valid live payload, the current snapshot    *)
(* is that payload, the sample flag is off, the stored error is cleared    *)
(* and the live dashboard is displayed without the notice.                 *)
(***************************************************************************)
\* a single request is outstanding, started after the last completion,
\* and that completion was a failure
SoloAfterFallback ==
    /\ interval = "armed"
    /\ inFlight = 1
    /\ loading
    /\ lastOutcome = "fallback"

ValidPayload(p) == \A k \in RequiredKeys : Truthy(p, k)

C19_LiveAfterFallback ==
    [][(/\ SoloAfterFallback
        /\ lastOutcome' = "live"
        /\ ValidPayload(lastResponse'.body))
          => (/\ data' = lastResponse'.body
              /\ ~usingMockData'
              /\ error' = NullError
              /\ View' = "dashboard"
              /\ ~NoticeShown')]_vars

(***************************************************************************)
(* Vocabulary of the aggregator claims.  The claims speak of real-number   *)
(* totals; Total is the exact sum, as an unrounded [hi, lo] pair, of one   *)
(* field over the records at the indices in I.                             *)
(***************************************************************************)
Aggregated == Called /\ ret[1].kind = "series"

StartDay(r, tz) == LocalDay(r.startTs, tz)

HasEnd(r) == r.endTs # 0

EndDay(r, tz) == LocalDay(r.endTs, tz)

RECURSIVE TotalPower(_, _)
TotalPower(stakers, I) ==
    IF I = {} THEN DZero
    ELSE LET i == CHOOSE j \in I : TRUE
             rest == TotalPower(stakers, I \ {i})
         IN Dbl(rest.hi + stakers[i].uiStakingPower.hi,
                rest.lo + stakers[i].uiStakingPower.lo)

RECURSIVE TotalAmount(_, _)
TotalAmount(stakers, I) ==
    IF I = {} THEN DZero
    ELSE LET i == CHOOSE j \in I : TRUE
             rest == TotalAmount(stakers, I \ {i})
         IN Dbl(rest.hi + stakers[i].uiAmount.hi,
                rest.lo + stakers[i].uiAmount.lo)

Minus(x, y) == Dbl(x.hi - y.hi, x.lo - y.lo)

\* every amount is far below 2^53, so that no sum of them is rounded
SmallAmounts(stakers) ==
    \A i \in DOMAIN stakers :
        stakers[i].uiStakingPower.hi = 0 /\ stakers[i].uiAmount.hi = 0

Starting(stakers, tz, d) ==
    {i \in DOMAIN stakers : StartDay(stakers[i], tz) = d}

Ending(stakers, tz, d) ==
    {i \in DOMAIN stakers : HasEnd(stakers[i]) /\ EndDay(stakers[i], tz) = d}

EndingElsewhere(stakers, tz, d) ==
    {i \in Ending(stakers, tz, d) : StartDay(stakers[i], tz) # d}

(***************************************************************************)
(* C16 (as stated)  Each record adds its stakingPower and amount to the    *)
(* delta of its start day and takes them off the delta of its end day      *)
(* only when the end timestamp is present and falls in another day bucket; *)
(* a record that starts and ends in one bucket gets no subtraction.        *)
(* Stated on the delta map of lists of small amounts: each day's delta is  *)
(* the total of the records starting there minus the total of the records  *)
(* ending there that started elsewhere.                                    *)
(***************************************************************************)
C16_NoSameDaySubtraction ==
    (Aggregated /\ SmallAmounts(args.stakers)) =>
        \A d \in DOMAIN ret[1].dailyAggregation :
            /\ ret[1].dailyAggregation[d].deltaStakingPower =
                  Minus(TotalPower(args.stakers, Starting(args.stakers, args.tz, d)),
                        TotalPower(args.stakers, EndingElsewhere(args.stakers, args.tz, d)))
            /\ ret[1].dailyAggregation[d].deltaMeStaked =
                  Minus(TotalAmount(args.stakers, Starting(args.stakers, args.tz, d)),
                        TotalAmount(args.stakers, EndingElsewhere(args.stakers, args.tz, d)))

(***************************************************************************)
(* C16 (amended)  Each record adds its stakingPower and amount to the      *)
(* delta of its start day and takes them off the delta of its end day      *)
(* whenever its end timestamp is present (non-zero), also when the end day *)
(* is the start day, where the two cancel.  The delta map has exactly the  *)
(* start days and the days of the present ends as its keys, and, for       *)
(* lists of small amounts, each day's delta is the total of the records    *)
(* starting there minus the total of the records ending there.             *)
(***************************************************************************)
C16_DeltaMap ==
    Aggregated =>
        /\ DOMAIN ret[1].dailyAggregation =
              {StartDay(args.stakers[i], args.tz) : i \in DOMAIN args.stakers}
                \cup {EndDay(args.stakers[i], args.tz) :
                        i \in {j \in DOMAIN args.stakers : HasEnd(args.stakers[j])}}
        /\ \A d \in DOMAIN ret[1].dailyAggregation :
              ret[1].dailyAggregation[d].day = d
        /\ SmallAmounts(args.stakers) =>
              \A d \in DOMAIN ret[1].dailyAggregation :
                /\ ret[1].dailyAggregation[d].deltaStakingPower =
                      Minus(TotalPower(args.stakers, Starting(args.stakers, args.tz, d)),
                            TotalPower(args.stakers, Ending(args.stakers, args.tz, d)))
                /\ ret[1].dailyAggregation[d].deltaMeStaked =
                      Minus(TotalAmount(args.stakers, Starting(args.stakers, args.tz, d)),
                            TotalAmount(args.stakers, Ending(args.stakers, args.tz, d)))

\* a lockup that ends on its start day has been aggregated next to another
C16_Witness ==
    /\ Aggregated
    /\ SmallAmounts(args.stakers)
    /\ Len(args.stakers) = 2
    /\ HasEnd(args.stakers[1])
    /\ EndDay(args.stakers[1], args.tz) = StartDay(args.stakers[1], args.tz)
    /\ ret[1].dailyAggregation[StartDay(args.stakers[1], args.tz)].deltaStakingPower
         = args.stakers[2].uiStakingPower

\* a lockup whose end is present and not after its start
Degenerate(r) == HasEnd(r) /\ r.endTs <= r.startTs

Proper(stakers) == {i \in DOMAIN stakers : ~Degenerate(stakers[i])}

(***************************************************************************)
(* C14  A degenerate record (endTs <= startTs) never determines the first  *)
(* day of the range: for a non-empty list the aggregator does not raise,   *)
(* and when the list has a non-degenerate record the earliest bucket is    *)
(* the earliest start day of the non-degenerate records.                   *)
(***************************************************************************)
C14_DegenerateNeverAnchors ==
    (Called /\ args.stakers # << >>) =>
        /\ ret[1].kind = "series"
        /\ Proper(args.stakers) # {} =>
              ret[1].earliestDayStr =
                Earliest({StartDay(args.stakers[i], args.tz) :
                            i \in Proper(args.stakers)})

\* the lockups that are open on day d: started on or before it, not ended
\* on or before it
Active(stakers, tz, d) ==
    {i \in DOMAIN stakers :
        /\ StartDay(stakers[i], tz) <= d
        /\ HasEnd(stakers[i]) => EndDay(stakers[i], tz) > d}

(***************************************************************************)
(* C11  For a non-empty list the cumulative series ends with the total     *)
(* stakingPower and the total amount of the records active today (start    *)
(* day on or before today, end day after today or absent).  Stated for     *)
(* lists of small amounts, whose totals are exact; a series without any    *)
(* entry stands for a total of zero.                                       *)
(***************************************************************************)
C11_LastIsActiveTotal ==
    (Called /\ args.stakers # << >> /\ SmallAmounts(args.stakers)) =>
        /\ ret[1].kind = "series"
        /\ LET series == ret[1].cumulativeData
               active == Active(args.stakers, args.tz, LocalDay(args.now, args.tz))
               lastPower == IF series = << >> THEN DZero
                            ELSE series[Len(series)].totalStakingPower
               lastStaked == IF series = << >> THEN DZero
                             ELSE series[Len(series)].totalMeStaked
           IN /\ lastPower = TotalPower(args.stakers, active)
              /\ lastStaked = TotalAmount(args.stakers, active)

(***************************************************************************)
(* C12  For a non-empty list whose earliest bucket is not after today the  *)
(* output has one entry per calendar day, consecutive and ascending, from  *)
(* the earliest observed day bucket to today inclusive, and a day no       *)
(* record touched has a zero delta and repeats the totals of the day       *)
(* before.                                                                 *)
(***************************************************************************)
C12_OneEntryPerDay ==
    (/\ Called
     /\ args.stakers # << >>
     /\ ret[1].kind = "series"
     /\ ret[1].earliestDayStr <= ret[1].todayStr) =>
        LET first == ret[1].earliestDayStr
            series == ret[1].cumulativeData
            before(i) == IF i = 1
                         THEN [totalStakingPower |-> DZero, totalMeStaked |-> DZero]
                         ELSE series[i - 1]
        IN /\ Len(series) = ret[1].todayStr - first + 1
           /\ Len(ret[1].dailyData) = Len(series)
           /\ \A i \in DOMAIN series :
                 /\ series[i].day = first + i - 1
                 /\ ret[1].dailyData[i].day = first + i - 1
                 /\ series[i].day \notin DOMAIN ret[1].dailyAggregation =>
                       /\ ret[1].dailyData[i].deltaStakingPower = DZero
                       /\ ret[1].dailyData[i].deltaMeStaked = DZero
                       /\ series[i].totalStakingPower = before(i).totalStakingPower
                       /\ series[i].totalMeStaked = before(i).totalMeStaked

\* the list s in the order given by the bijection f on its indices
Permuted(s, f) == [i \in DOMAIN s |-> s[f[i]]]

Bijections(n) ==
    {f \in [1 .. n -> 1 .. n] : \A i, j \in 1 .. n : f[i] = f[j] => i = j}

Days(series) == [i \in DOMAIN series |-> series[i].day]

\* what the charts receive: the (day, totals) sequence, or the throw
Emitted(result) ==
    IF result.kind = "series" THEN result.cumulativeData ELSE result

(***************************************************************************)
(* C15 (as stated)  The emitted (day, cumulative stakingPower, cumulative  *)
(* amount) sequence is the same for every permutation of the record list   *)
(* with the same current day.                                              *)
(***************************************************************************)
C15_OrderIrrelevant ==
    Called =>
        \A f \in Bijections(Len(args.stakers)) :
            Emitted(Aggregate(Permuted(args.stakers, f), args.now, args.tz))
              = Emitted(ret[1])

(***************************************************************************)
(* C15 (amended)  For every permutation of the record list with the same   *)
(* current day the outcome is of the same kind and the emitted sequence    *)
(* has the same days; the cumulative totals are the same too when the      *)
(* amounts are small enough for their double sums to be exact.  (With      *)
(* larger amounts the totals depend on the order in which the doubles are  *)
(* added.)                                                                 *)
(***************************************************************************)
C15_OrderIrrelevantWhenExact ==
    Called =>
        \A f \in Bijections(Len(args.stakers)) :
            LET other == Aggregate(Permuted(args.stakers, f), args.now, args.tz)
            IN /\ other.kind = ret[1].kind
               /\ ret[1].kind = "series" =>
                     Days(other.cumulativeData) = Days(ret[1].cumulativeData)
               /\ SmallAmounts(args.stakers) => Emitted(other) = Emitted(ret[1])

\* two different lockups of small amounts that start on the same day
C15_Witness ==
    /\ Aggregated
    /\ SmallAmounts(args.stakers)
    /\ Len(args.stakers) = 2
    /\ args.stakers[1].uiStakingPower # args.stakers[2].uiStakingPower
    /\ StartDay(args.stakers[1], args.tz) = StartDay(args.stakers[2], args.tz)
    /\ ret[1].cumulativeData # << >>

\* every lockup ends after it starts; the input amounts are never negative
AllValid(stakers) ==
    \A i \in DOMAIN stakers :
        /\ stakers[i].endTs > stakers[i].startTs
        /\ ~IsNegative(stakers[i].uiStakingPower)
        /\ ~IsNegative(stakers[i].uiAmount)

NeverNegative(series) ==
    \A i \in DOMAIN series :
        /\ ~IsNegative(series[i].totalStakingPower)
        /\ ~IsNegative(series[i].totalMeStaked)

(***************************************************************************)
(* C20 (as stated)  When every record has endTs > startTs and non-negative *)
(* stakingPower and amount, every entry of the cumulative series has       *)
(* cumulative stakingPower >= 0 and cumulative amount >= 0.                *)
(***************************************************************************)
C20_NeverNegative ==
    (Aggregated /\ AllValid(args.stakers)) => NeverNegative(ret[1].cumulativeData)

(***************************************************************************)
(* C20 (amended)  When every record has endTs > startTs and non-negative   *)
(* stakingPower and amount, and the amounts are small enough for their     *)
(* double sums to be exact, every entry of the cumulative series has       *)
(* cumulative stakingPower >= 0 and cumulative amount >= 0.                *)
(***************************************************************************)
C20_NeverNegativeWhenExact ==
    (Aggregated /\ AllValid(args.stakers) /\ SmallAmounts(args.stakers)) =>
        NeverNegative(ret[1].cumulativeData)

\* two valid lockups of small amounts have been opened and closed again
\* within the range: the totals rose above zero and came back to it
C20_Witness ==
    /\ Aggregated
    /\ AllValid(args.stakers)
    /\ SmallAmounts(args.stakers)
    /\ Len(args.stakers) = 2
    /\ Len(ret[1].cumulativeData) >= 2
    /\ ret[1].cumulativeData[1].totalStakingPower.lo > 0
    /\ ret[1].cumulativeData[Len(ret[1].cumulativeData)].totalStakingPower = DZero

=============================================================================
